---- MODULE Spec2Model ----
(***************************************************************************)
(* Token-label alignment and metric post-processing of the                 *)
(* token-classification notebook (ch7_Main_NLP_Tasks), the data filtering, *)
(* tokenization and training loop of the causal-language-model notebook    *)
(* (ch5_Dataset3_Rescue_Big_data) and the speech demo of the README, as    *)
(* state machines.                                                         *)
(*                                                                         *)
(* Python values are encoded as follows.                                   *)
(*   - a Python list / numpy row is a TLA+ sequence; Python index k is     *)
(*     TLA+ index k + 1;                                                   *)
(*   - an entry of a word-id map is None (the empty tuple) or W(k), the    *)
(*     one-element tuple <<k>>, so that None differs from every word       *)
(*     index, as it does in Python;                                        *)
(*   - a call either returns a value or raises: an operator that models a  *)
(*     function yields a record with a field "raised";                     *)
(*   - a Python str is the sequence of its characters, each a one-letter   *)
(*     string.                                                             *)
(***************************************************************************)
EXTENDS Integers, Sequences, FiniteSets, TLC

VARIABLES
    labels,            \* align_labels_with_tokens: word-level label codes
    word_ids,          \* align_labels_with_tokens: word-id map of the tokens
    new_labels,        \* the value align_labels_with_tokens returned
    align_pc,          \* "call", "returned" or "raised"
    predictions,       \* postprocess: batch of predicted codes (rows)
    batch_labels,      \* postprocess: batch of gold codes (rows), its `labels`
    true_labels,       \* first component of postprocess's result
    true_predictions,  \* second component of postprocess's result
    post_pc,           \* "idle", "call", "returned" or "raised"
    metric_predictions, \* evaluation loop: metric.add_batch(predictions=...)
    metric_references, \* evaluation loop: metric.add_batch(references=...)
    cm_predictions,    \* compute_metrics: its `predictions`, the argmax
    cm_true_labels,    \* compute_metrics: its true_labels
    cm_true_predictions, \* compute_metrics: its true_predictions
    cm_pc,             \* "idle", "call", "returned" or "raised"
    string,            \* any_keyword_in_string: its `string`
    keywords,          \* any_keyword_in_string: its `keywords`
    aks_result,        \* the value any_keyword_in_string returned
    aks_pc,            \* "idle", "call" or "returned"
    dataset,           \* filter_streaming_dataset: the samples of the stream
    fsd_filters,       \* filter_streaming_dataset: its `filters`
    stream_pos,        \* number of samples iter(dataset) has yielded
    total,             \* filter_streaming_dataset: its `total`
    filtered_dict,     \* filter_streaming_dataset: its `filtered_dict`
    fsd_result,        \* the columns of the Dataset it returned
    fsd_pc,            \* "idle", "loop", "returned" or "raised"
    element,           \* tokenize: element["content"], each document as its tokens
    outputs,           \* tokenize: what the tokenizer returned
    tok_result,        \* the value tokenize returned
    tok_pc,            \* "idle", "call" or "returned"
    num_batches,       \* training loop: len(train_dataloader)
    is_main_process,   \* training loop: accelerator.is_main_process
    epoch,             \* training loop: epochs finished
    step,              \* training loop: `step` of enumerate(..., start=1), 0 before
    completed_steps,   \* training loop: its `completed_steps`
    accumulated,       \* backward passes whose gradients wait for optimizer.step
    optimizer_steps,   \* number of optimizer.step() calls
    evaluations,       \* number of evaluate() calls
    hub_pushes,        \* number of repo.push_to_hub calls of this process
    model_mode,        \* "train" or "eval"
    events,            \* the calls of the current iteration, in order
    train_pc,          \* "idle", "batch", "update", "eval", "save" or "done"
    mic,               \* transcribe_audio: its `mic`
    file,              \* transcribe_audio: its `file`
    ta_result,         \* the value transcribe_audio returned
    model_calls,       \* the audios the speech pipeline was called with, in order
    requests,          \* number of requests the interface has passed on
    ta_pc              \* "idle", "call" or "returned"

alignVars == <<labels, word_ids, new_labels, align_pc>>
batchVars == <<predictions, batch_labels>>
postVars == <<true_labels, true_predictions, post_pc,
             metric_predictions, metric_references>>
cmVars == <<cm_predictions, cm_true_labels, cm_true_predictions, cm_pc>>

keywordVars == <<string, keywords, aks_result, aks_pc>>
filterVars == <<dataset, fsd_filters, stream_pos, total, filtered_dict, fsd_result,
               fsd_pc>>
tokenizeVars == <<element, outputs, tok_result, tok_pc>>
trainVars == <<num_batches, is_main_process, epoch, step, completed_steps,
              accumulated, optimizer_steps, evaluations, hub_pushes, model_mode,
              events, train_pc>>

transcribeVars == <<mic, file, ta_result, model_calls, requests, ta_pc>>

\* the state of the token-classification notebook
ch7Vars == <<alignVars, batchVars, postVars, cmVars>>
\* the state of everything else
restVars == <<keywordVars, filterVars, tokenizeVars, trainVars, transcribeVars>>

vars == <<ch7Vars, restVars>>

----------------------------------------------------------------------------
(* Bounds of the model *)

\* longest word-level label sequence
MaxWords == 2
\* longest word-id map
MaxTokens == 4
\* largest number of cells (rows * columns) of a batch
MaxCells == 4
\* largest number of cells of an array handed to the functions directly
MaxArrayCells == 2

\* longest string handed to any_keyword_in_string
MaxChars == 3
\* longest keyword
MaxKeyLen == 2
\* longest keyword list
MaxKeywords == 2
\* largest number of samples of a stream
MaxSamples == 2
\* largest number of documents of a batch handed to tokenize
MaxDocs == 2
\* number of different recordings
MaxAudios == 2
\* largest number of requests of the speech demo
MaxRequests == 3

----------------------------------------------------------------------------
(* Program constants *)

\* the index ignored by the loss and dropped before scoring
IGNORE_INDEX == -100

\* the context size of the language model
context_length == 128

\* the training loop's settings
gradient_accumulation_steps == 8
eval_steps == 5000
num_train_epochs == 1

\* ner_feature.feature.names
label_names ==
    <<"O", "B-PER", "I-PER", "B-ORG", "I-ORG", "B-LOC", "I-LOC", "B-MISC", "I-MISC">>

NumLabels == Len(label_names)

LabelCodes == 0 .. (NumLabels - 1)

----------------------------------------------------------------------------
(* Python helpers *)

None == << >>
W(k) == <<k>>

\* seq[i] on a Python list: negative indices count from the end, anything
\* outside -len .. len-1 raises IndexError.
PyIndexOk(seq, i) == (-Len(seq)) <= i /\ i < Len(seq)
PyIndex(seq, i) == IF i >= 0 THEN seq[i + 1] ELSE seq[Len(seq) + i + 1]

Min(a, b) == IF a <= b THEN a ELSE b

\* all sequences over S of length 0 .. n
SeqsUpTo(S, n) == UNION {[1 .. k -> S] : k \in 0 .. n}

----------------------------------------------------------------------------
(* align_labels_with_tokens *)

\* "If the label is B-XXX we change it to I-XXX"
InsideLabelKeepB(label) == label
InsideLabelAlways(label) == label + 1
InsideLabel(label) == IF label % 2 = 1 THEN label + 1 ELSE label

\* the label appended for a special token
SpecialTokenLabelO == CHOOSE c \in LabelCodes : label_names[c + 1] = "O"
SpecialTokenLabel == IGNORE_INDEX

\* One iteration of the loop body: what is appended for word_id when the
\* previous entry was current_word, and the list `labels` after the
\* iteration (`label += 1` rebinds the local name, the list is not written).
\* Raises when labels[word_id] does.
TokenLabelInsideFirst(lbls, word_id, current_word) ==
    IF word_id = None
    THEN [raised |-> FALSE, label |-> SpecialTokenLabel, labels |-> lbls]
    ELSE IF PyIndexOk(lbls, word_id[1])
         THEN [raised |-> FALSE, label |-> InsideLabel(PyIndex(lbls, word_id[1])),
               labels |-> lbls]
         ELSE [raised |-> TRUE, label |-> 0, labels |-> lbls]
TokenLabelDefaultMissing(lbls, word_id, current_word) ==
    IF word_id = None \/ ~PyIndexOk(lbls, word_id[1])
    THEN [raised |-> FALSE, label |-> SpecialTokenLabel, labels |-> lbls]
    ELSE IF word_id # current_word
    THEN [raised |-> FALSE, label |-> PyIndex(lbls, word_id[1]), labels |-> lbls]
    ELSE [raised |-> FALSE, label |-> InsideLabel(PyIndex(lbls, word_id[1])),
          labels |-> lbls]
TokenLabelInPlace(lbls, word_id, current_word) ==
    IF word_id = None
    THEN [raised |-> FALSE, label |-> SpecialTokenLabel, labels |-> lbls]
    ELSE IF ~PyIndexOk(lbls, word_id[1])
    THEN [raised |-> TRUE, label |-> 0, labels |-> lbls]
    ELSE IF word_id # current_word
    THEN [raised |-> FALSE, label |-> PyIndex(lbls, word_id[1]), labels |-> lbls]
    ELSE [raised |-> FALSE, label |-> InsideLabel(PyIndex(lbls, word_id[1])),
          labels |-> [lbls EXCEPT ![word_id[1] + 1] = InsideLabel(@)]]
TokenLabel(lbls, word_id, current_word) ==
    IF word_id # current_word
    THEN \* Start of a new word!
         IF word_id = None
         THEN [raised |-> FALSE, label |-> SpecialTokenLabel, labels |-> lbls]
         ELSE IF PyIndexOk(lbls, word_id[1])
              THEN [raised |-> FALSE, label |-> PyIndex(lbls, word_id[1]),
                    labels |-> lbls]
              ELSE [raised |-> TRUE, label |-> 0, labels |-> lbls]
    ELSE IF word_id = None
    THEN \* Special token
         [raised |-> FALSE, label |-> SpecialTokenLabel, labels |-> lbls]
    ELSE \* Same word as previous token
         IF PyIndexOk(lbls, word_id[1])
         THEN [raised |-> FALSE, label |-> InsideLabel(PyIndex(lbls, word_id[1])),
               labels |-> lbls]
         ELSE [raised |-> TRUE, label |-> 0, labels |-> lbls]

\* the for loop, from its i-th iteration on
RECURSIVE AlignLoop(_, _, _, _, _)
AlignLoop(lbls, wids, i, current_word, acc) ==
    IF i > Len(wids)
    THEN [raised |-> FALSE, value |-> acc, labels |-> lbls]
    ELSE LET t == TokenLabel(lbls, wids[i], current_word) IN
         IF t.raised
         THEN [raised |-> TRUE, value |-> << >>, labels |-> t.labels]
         ELSE AlignLoop(t.labels, wids, i + 1, wids[i], Append(acc, t.label))

align_skip_special(lbls, wids) ==
    LET r == AlignLoop(lbls, wids, 1, None, << >>) IN
    [r EXCEPT !.value = SelectSeq(r.value, LAMBDA x : x # IGNORE_INDEX)]
align_peek_first(lbls, wids) ==
    IF Len(lbls) = 0
    THEN [raised |-> TRUE, value |-> << >>, labels |-> lbls]
    ELSE AlignLoop(lbls, wids, 1, None, << >>)
align_track_words(lbls, wids) ==
    IF \E i \in 1 .. Len(wids) : wids[i] # None /\ ~PyIndexOk(lbls, wids[i][1])
    THEN [raised |-> TRUE, value |-> << >>, labels |-> lbls]
    ELSE [raised |-> FALSE,
          value |-> [i \in 1 .. Len(wids) |->
                        IF wids[i] = None
                        THEN SpecialTokenLabel
                        ELSE IF \E j \in 1 .. (i - 1) : wids[j] = wids[i]
                        THEN InsideLabel(PyIndex(lbls, wids[i][1]))
                        ELSE PyIndex(lbls, wids[i][1])],
          labels |-> lbls]
align_labels_with_tokens(lbls, wids) == AlignLoop(lbls, wids, 1, None, << >>)

----------------------------------------------------------------------------
(* postprocess *)

\* `if l != -100` of the true_labels comprehension
KeepAny(l) == TRUE
KeepEntities(l) == l > 0
Keep(l) == l # IGNORE_INDEX

\* `if l != -100` of the true_predictions comprehension, on a pair (p, l)
KeepPairByPrediction(p, l) == p # IGNORE_INDEX
KeepPair(p, l) == l # IGNORE_INDEX

\* [label_names[l] for l in label if l != -100], from position i on
RECURSIVE DecodeLabels(_, _, _)
DecodeLabels(label, i, acc) ==
    IF i > Len(label)
    THEN [raised |-> FALSE, value |-> acc]
    ELSE IF ~Keep(label[i])
    THEN DecodeLabels(label, i + 1, acc)
    ELSE IF ~PyIndexOk(label_names, label[i])
    THEN [raised |-> TRUE, value |-> << >>]
    ELSE DecodeLabels(label, i + 1, Append(acc, PyIndex(label_names, label[i])))

\* [label_names[p] for (p, l) in zip(prediction, label) if l != -100];
\* zip stops at the shorter of the two rows
RECURSIVE DecodePredictions(_, _, _, _)
DecodePredictions(prediction, label, i, acc) ==
    IF i > Min(Len(prediction), Len(label))
    THEN [raised |-> FALSE, value |-> acc]
    ELSE IF ~KeepPair(prediction[i], label[i])
    THEN DecodePredictions(prediction, label, i + 1, acc)
    ELSE IF ~PyIndexOk(label_names, prediction[i])
    THEN [raised |-> TRUE, value |-> << >>]
    ELSE DecodePredictions(prediction, label, i + 1,
                           Append(acc, PyIndex(label_names, prediction[i])))

\* the outer comprehension `for label in labels`
RECURSIVE TrueLabelsFrom(_, _, _)
TrueLabelsFrom(lbls, r, acc) ==
    IF r > Len(lbls)
    THEN [raised |-> FALSE, value |-> acc]
    ELSE LET row == DecodeLabels(lbls[r], 1, << >>) IN
         IF row.raised
         THEN [raised |-> TRUE, value |-> << >>]
         ELSE TrueLabelsFrom(lbls, r + 1, Append(acc, row.value))

\* the outer comprehension `for prediction, label in zip(predictions, labels)`
RECURSIVE TruePredictionsFrom(_, _, _, _)
TruePredictionsFrom(preds, lbls, r, acc) ==
    IF r > Min(Len(preds), Len(lbls))
    THEN [raised |-> FALSE, value |-> acc]
    ELSE LET row == DecodePredictions(preds[r], lbls[r], 1, << >>) IN
         IF row.raised
         THEN [raised |-> TRUE, value |-> << >>]
         ELSE TruePredictionsFrom(preds, lbls, r + 1, Append(acc, row.value))

\* postprocess(predictions, labels): both arguments are cloned
\* (.detach().cpu().clone().numpy()) and only the clones are read, so the
\* caller's tensors after the call are the arguments; true_labels is built
\* first, then true_predictions; the pair is returned in that order.
postprocess_drop_empty(preds, lbls) ==
    LET tl == TrueLabelsFrom(lbls, 1, << >>)
        tp == TruePredictionsFrom(preds, lbls, 1, << >>) IN
    IF tl.raised \/ tp.raised
    THEN [raised |-> TRUE, true_labels |-> << >>, true_predictions |-> << >>,
          predictions |-> preds, labels |-> lbls]
    ELSE [raised |-> FALSE,
          true_labels |-> SelectSeq(tl.value, LAMBDA s : s # << >>),
          true_predictions |-> SelectSeq(tp.value, LAMBDA s : s # << >>),
          predictions |-> preds, labels |-> lbls]
postprocess(preds, lbls) ==
    LET tl == TrueLabelsFrom(lbls, 1, << >>) IN
    IF tl.raised
    THEN [raised |-> TRUE, true_labels |-> << >>, true_predictions |-> << >>,
          predictions |-> preds, labels |-> lbls]
    ELSE LET tp == TruePredictionsFrom(preds, lbls, 1, << >>) IN
         IF tp.raised
         THEN [raised |-> TRUE, true_labels |-> << >>, true_predictions |-> << >>,
               predictions |-> preds, labels |-> lbls]
         ELSE [raised |-> FALSE, true_labels |-> tl.value,
               true_predictions |-> tp.value,
               predictions |-> preds, labels |-> lbls]

----------------------------------------------------------------------------
(* compute_metrics, up to the call of metric.compute *)

\* [label_names[l] for l in label if l != -100]
RECURSIVE CmDecodeLabels(_, _, _)
CmDecodeLabels(label, i, acc) ==
    IF i > Len(label)
    THEN [raised |-> FALSE, value |-> acc]
    ELSE IF label[i] = IGNORE_INDEX
    THEN CmDecodeLabels(label, i + 1, acc)
    ELSE IF ~PyIndexOk(label_names, label[i])
    THEN [raised |-> TRUE, value |-> << >>]
    ELSE CmDecodeLabels(label, i + 1, Append(acc, PyIndex(label_names, label[i])))

\* [label_names[p] for (p, l) in zip(prediction, label) if l != -100]
RECURSIVE CmDecodePredictions(_, _, _, _)
CmDecodePredictions(prediction, label, i, acc) ==
    IF i > Min(Len(prediction), Len(label))
    THEN [raised |-> FALSE, value |-> acc]
    ELSE IF label[i] = IGNORE_INDEX
    THEN CmDecodePredictions(prediction, label, i + 1, acc)
    ELSE IF ~PyIndexOk(label_names, prediction[i])
    THEN [raised |-> TRUE, value |-> << >>]
    ELSE CmDecodePredictions(prediction, label, i + 1,
                             Append(acc, PyIndex(label_names, prediction[i])))

\* `for label in labels`
RECURSIVE CmTrueLabelsFrom(_, _, _)
CmTrueLabelsFrom(lbls, r, acc) ==
    IF r > Len(lbls)
    THEN [raised |-> FALSE, value |-> acc]
    ELSE LET row == CmDecodeLabels(lbls[r], 1, << >>) IN
         IF row.raised
         THEN [raised |-> TRUE, value |-> << >>]
         ELSE CmTrueLabelsFrom(lbls, r + 1, Append(acc, row.value))

\* `for prediction, label in zip(predictions, labels)`
RECURSIVE CmTruePredictionsFrom(_, _, _, _)
CmTruePredictionsFrom(preds, lbls, r, acc) ==
    IF r > Min(Len(preds), Len(lbls))
    THEN [raised |-> FALSE, value |-> acc]
    ELSE LET row == CmDecodePredictions(preds[r], lbls[r], 1, << >>) IN
         IF row.raised
         THEN [raised |-> TRUE, value |-> << >>]
         ELSE CmTruePredictionsFrom(preds, lbls, r + 1, Append(acc, row.value))

\* the two lists compute_metrics hands to metric.compute, from the argmax
\* `predictions` and the gold `labels`
compute_metrics_lists(preds, lbls) ==
    LET tl == CmTrueLabelsFrom(lbls, 1, << >>) IN
    IF tl.raised
    THEN [raised |-> TRUE, true_labels |-> << >>, true_predictions |-> << >>]
    ELSE LET tp == CmTruePredictionsFrom(preds, lbls, 1, << >>) IN
         IF tp.raised
         THEN [raised |-> TRUE, true_labels |-> << >>, true_predictions |-> << >>]
         ELSE [raised |-> FALSE, true_labels |-> tl.value,
               true_predictions |-> tp.value]

----------------------------------------------------------------------------
(* any_keyword_in_string *)

\* string[i : i + len(keyword)] == keyword, for a 0-based start i with
\* i + len(keyword) <= len(string)
MatchAt(str, keyword, i) ==
    \A j \in 1 .. Len(keyword) : str[i + j] = keyword[j]

\* the search of `keyword in string` from start i on
RECURSIVE FindFrom(_, _, _)
FindFrom(str, keyword, i) ==
    IF i + Len(keyword) > Len(str)
    THEN FALSE
    ELSE IF MatchAt(str, keyword, i)
    THEN TRUE
    ELSE FindFrom(str, keyword, i + 1)

\* `keyword in string` on two str values
StrStartsWith(str, keyword) ==
    Len(keyword) <= Len(str) /\ MatchAt(str, keyword, 0)
StrContains(str, keyword) == FindFrom(str, keyword, 0)

\* the for loop, from its k-th keyword on; `return False` after it
RECURSIVE AnyKeywordLoop(_, _, _)
AnyKeywordLoop(str, kws, k) ==
    IF k > Len(kws)
    THEN FALSE
    ELSE IF StrContains(str, kws[k])
    THEN TRUE
    ELSE AnyKeywordLoop(str, kws, k + 1)

any_keyword_in_string(str, kws) == AnyKeywordLoop(str, kws, 1)

\* the cell that tries the function
filters == <<<<"p", "a", "n", "d", "a", "s">>,
             <<"s", "k", "l", "e", "a", "r", "n">>,
             <<"m", "a", "t", "p", "l", "o", "t", "l", "i", "b">>,
             <<"s", "e", "a", "b", "o", "r", "n">>>>
example_1 == <<"i", "m", "p", "o", "r", "t", " ", "n", "u", "m", "p", "y", " ", "a", "s", " ", "n", "p">>
example_2 == <<"i", "m", "p", "o", "r", "t", " ", "p", "a", "n", "d", "a", "s", " ", "a", "s", " ", "p", "d">>

----------------------------------------------------------------------------
(* filter_streaming_dataset *)

\* defaultdict(list) with no key yet
EmptyDict == [k \in {} |-> << >>]

\* filtered_dict[k] of a defaultdict(list): a missing key is inserted with an
\* empty list
DictTouch(dict, k) ==
    IF k \in DOMAIN dict
    THEN dict
    ELSE [c \in (DOMAIN dict) \cup {k} |-> IF c = k THEN << >> ELSE dict[c]]

\* for k, v in sample.items(): filtered_dict[k].append(v)
AppendFirstColumnOnly(dict, sample) ==
    LET k == CHOOSE c \in DOMAIN sample : TRUE IN
    [c \in (DOMAIN dict) \cup {k} |->
        IF c = k THEN Append(DictTouch(dict, c)[c], sample[c]) ELSE dict[c]]
AppendSample(dict, sample) ==
    [c \in (DOMAIN dict) \cup (DOMAIN sample) |->
        IF c \in DOMAIN sample
        THEN Append(DictTouch(dict, c)[c], sample[c])
        ELSE dict[c]]

\* the body of `for sample in tqdm(iter(dataset))` for one sample: the new
\* total and the new filtered_dict
FilterBody(dict, tot, sample, flt) ==
    [total |-> tot + 1,
     filtered_dict |-> IF any_keyword_in_string(sample["content"], flt)
                       THEN AppendSample(dict, sample)
                       ELSE dict]

\* print(f"{len(filtered_dict['content'])/total:.2%} of data after filtering.")
\* and return Dataset.from_dict(filtered_dict): the subscript inserts the
\* key 'content' when no sample matched, the division raises
\* ZeroDivisionError when the stream was empty
FilterEnd(dict, tot) ==
    LET touched == DictTouch(dict, "content") IN
    [raised |-> (tot = 0), filtered_dict |-> touched,
     value |-> IF tot = 0 THEN EmptyDict ELSE touched]

----------------------------------------------------------------------------
(* tokenize *)

\* the chunks the tokenizer cuts one document into, with truncation=True,
\* max_length=context_length and return_overflowing_tokens=True: pieces of
\* context_length tokens, the last one with what is left
RECURSIVE ChunksOf(_)
ChunksOf(doc) ==
    IF Len(doc) <= context_length
    THEN <<doc>>
    ELSE <<SubSeq(doc, 1, context_length)>>
             \o ChunksOf(SubSeq(doc, context_length + 1, Len(doc)))

\* the chunks of a batch of documents, document after document
RECURSIVE ChunksOfBatch(_, _)
ChunksOfBatch(docs, d) ==
    IF d > Len(docs) THEN << >> ELSE ChunksOf(docs[d]) \o ChunksOfBatch(docs, d + 1)

\* outputs = tokenizer(element["content"], ..., return_length=True)
Tokenizer(docs) ==
    LET chunks == ChunksOfBatch(docs, 1) IN
    [input_ids |-> chunks, length |-> [i \in 1 .. Len(chunks) |-> Len(chunks[i])]]

\* `if length == context_length`
KeepChunkUpTo(length) == length <= context_length
KeepChunk(length) == length = context_length

\* for length, input_ids in zip(outputs["length"], outputs["input_ids"]),
\* from the i-th pair on
RECURSIVE TokenizeLoop(_, _, _, _)
TokenizeLoop(lengths, ids, i, input_batch) ==
    IF i > Min(Len(lengths), Len(ids))
    THEN input_batch
    ELSE IF KeepChunk(lengths[i])
    THEN TokenizeLoop(lengths, ids, i + 1, Append(input_batch, ids[i]))
    ELSE TokenizeLoop(lengths, ids, i + 1, input_batch)

\* tokenize(element): the tokenizer's outputs and the returned dict
tokenize(docs) ==
    LET out == Tokenizer(docs) IN
    [outputs |-> out,
     value |-> [input_ids |-> TokenizeLoop(out.length, out.input_ids, 1, << >>)]]

----------------------------------------------------------------------------
(* The training loop with gradient accumulation *)

\* `if step % gradient_accumulation_steps == 0`
UpdateDueAlways(s) == TRUE
UpdateDue(s) == s % gradient_accumulation_steps = 0

\* `if (step % (eval_steps * gradient_accumulation_steps)) == 0`
EvalDueEveryEvalSteps(s) == s % eval_steps = 0
EvalDue(s) == s % (eval_steps * gradient_accumulation_steps) = 0

\* the calls of the three parts of the loop body, in program order
ForwardCalls == <<"model", "keytoken_weighted_loss", "accelerator.backward">>
UpdateCalls ==
    <<"accelerator.clip_grad_norm_", "optimizer.step", "lr_scheduler.step",
      "optimizer.zero_grad">>
SaveCalls(main) ==
    <<"model.train", "accelerator.wait_for_everyone", "save_pretrained">>
        \o (IF main THEN <<"tokenizer.save_pretrained", "repo.push_to_hub">>
                    ELSE << >>)

----------------------------------------------------------------------------
(* transcribe_audio *)

\* a recording (the path gradio hands over); no recording is None
Audio(k) == <<"audio", k>>

\* a str value of the demo
Str(text) == <<"str", text>>

\* model(audio)["text"]
SpeechText(audio) == <<"text of", audio>>

\* the if / elif: the audio to transcribe, None when neither is given
ChooseAudioFileFirst(m, f) ==
    IF f # None THEN f ELSE IF m # None THEN m ELSE None
ChooseAudio(m, f) ==
    IF m # None THEN m ELSE IF f # None THEN f ELSE None

\* transcribe_audio(mic, file): the returned value and the calls of the
\* speech pipeline it made
transcribe_audio(m, f) ==
    LET audio == ChooseAudio(m, f) IN
    IF m = None /\ f = None
    THEN [value |-> Str("You must either provide a mic recording or a file"),
          calls |-> << >>]
    ELSE [value |-> SpeechText(audio), calls |-> <<audio>>]

----------------------------------------------------------------------------
(* Inputs *)

\* the characters the strings are made of
Alphabet == {"a", "b"}

\* three codes outside the label table
MalformedCodes == {IGNORE_INDEX, -1, NumLabels}

\* the word-level label sequences the call is tried with: every sequence
\* over the label table (what the dataset's ner_tags hold), and every
\* sequence that mixes codes outside the table with "O" and "B-PER"
WordLabelInputs ==
    SeqsUpTo(LabelCodes, MaxWords) \cup SeqsUpTo(MalformedCodes \cup {0, 1}, MaxWords)

\* entries of a word-id map
WordIdEntries == {None} \cup {W(k) : k \in 0 .. (MaxWords - 1)}

\* calls <<labels, word_ids>> taken from the notebook and from its
\* description: the first training sentence as tokenized there ("lamb" is
\* split in two), its first three words between the two special tokens, and
\* a fourth word labelled B-MISC that is split in two
ExampleCalls ==
    { << <<3, 0, 7, 0, 0, 0, 7, 0, 0>>,
         <<None, W(0), W(1), W(2), W(3), W(4), W(5), W(6), W(7), W(7), W(8), None>> >>,
      << <<3, 0, 7>>, <<None, W(0), W(1), W(2), None>> >>,
      << <<3, 0, 7, 7>>, <<W(3), W(3)>> >> }

\* codes the evaluation batches are tried with: the first and the last
\* entry of the label table
BatchCodes == {0, NumLabels - 1}

\* a cell of an evaluation batch, <<prediction, gold>>: the prediction is an
\* argmax over the label table, the gold label a code or the ignore index;
\* a position padded by pad_across_processes holds the ignore index in both
BatchCells ==
    (BatchCodes \X (BatchCodes \cup {IGNORE_INDEX}))
        \cup {<<IGNORE_INDEX, IGNORE_INDEX>>}

\* <<rows, columns>> of a batch
BatchShapes ==
    {s \in (0 .. MaxCells) \X (0 .. MaxCells) : s[1] * s[2] <= MaxCells}

\* the batches of one shape, as matrices of cells
CellBatches(s) == [1 .. s[1] -> [1 .. s[2] -> BatchCells]]

\* the k-th component of every cell
Column(batch, k) ==
    [r \in 1 .. Len(batch) |-> [c \in 1 .. Len(batch[r]) |-> batch[r][c][k]]]

\* number of columns of a rectangular batch
Columns(batch) == IF Len(batch) = 0 THEN 0 ELSE Len(batch[1])

\* codes the functions are tried with directly: the ignore index, the first
\* and the last entry of the label table, and one code on either side of it
ArrayCodes == {IGNORE_INDEX, -1, 0, NumLabels - 1, NumLabels}

\* the integer arrays of at most MaxArrayCells cells
Arrays ==
    UNION {[1 .. s[1] -> [1 .. s[2] -> ArrayCodes]] :
              s \in {t \in (0 .. MaxArrayCells) \X (0 .. MaxArrayCells) :
                        t[1] * t[2] <= MaxArrayCells}}

\* np.argmax(logits, axis=-1) for a batch whose argmax over the real tokens
\* is preds: an index of the label table at every position, any index at a
\* padded one
Argmax(preds) ==
    {m \in [1 .. Len(preds) -> [1 .. Columns(preds) -> BatchCodes]] :
        \A r \in 1 .. Len(preds) : \A c \in 1 .. Columns(preds) :
            preds[r][c] # IGNORE_INDEX => m[r][c] = preds[r][c]}

----------------------------------------------------------------------------
(* Specification of the alignment: Spec *)

AlignIdle ==
    /\ labels = << >>
    /\ word_ids = << >>
    /\ new_labels = << >>
    /\ align_pc = "idle"

PostIdle ==
    /\ predictions = << >>
    /\ batch_labels = << >>
    /\ true_labels = << >>
    /\ true_predictions = << >>
    /\ post_pc = "idle"
    /\ metric_predictions = << >>
    /\ metric_references = << >>
    /\ cm_predictions = << >>
    /\ cm_true_labels = << >>
    /\ cm_true_predictions = << >>
    /\ cm_pc = "idle"

KeywordIdle ==
    /\ string = << >>
    /\ keywords = << >>
    /\ aks_result = FALSE
    /\ aks_pc = "idle"

Ch7Idle ==
    /\ AlignIdle
    /\ PostIdle

FilterIdle ==
    /\ dataset = << >>
    /\ fsd_filters = << >>
    /\ stream_pos = 0
    /\ total = 0
    /\ filtered_dict = EmptyDict
    /\ fsd_result = EmptyDict
    /\ fsd_pc = "idle"

TokenizeIdle ==
    /\ element = << >>
    /\ outputs = << >>
    /\ tok_result = << >>
    /\ tok_pc = "idle"

TrainIdle ==
    /\ num_batches = 0
    /\ is_main_process = FALSE
    /\ epoch = 0
    /\ step = 0
    /\ completed_steps = 0
    /\ accumulated = 0
    /\ optimizer_steps = 0
    /\ evaluations = 0
    /\ hub_pushes = 0
    /\ model_mode = "train"
    /\ events = << >>
    /\ train_pc = "idle"

TranscribeIdle ==
    /\ mic = None
    /\ file = None
    /\ ta_result = None
    /\ model_calls = << >>
    /\ requests = 0
    /\ ta_pc = "idle"

RestIdle ==
    /\ KeywordIdle
    /\ FilterIdle
    /\ TokenizeIdle
    /\ TrainIdle
    /\ TranscribeIdle

Init ==
    /\ \/ /\ labels \in WordLabelInputs
          /\ word_ids \in SeqsUpTo(WordIdEntries, MaxTokens)
       \/ \E c \in ExampleCalls : labels = c[1] /\ word_ids = c[2]
    /\ new_labels = << >>
    /\ align_pc = "call"
    /\ PostIdle
    /\ RestIdle

\* the call align_labels_with_tokens(labels, word_ids)
Align ==
    /\ align_pc = "call"
    /\ LET r == align_labels_with_tokens(labels, word_ids) IN
          /\ align_pc' = IF r.raised THEN "raised" ELSE "returned"
          /\ new_labels' = r.value
          /\ labels' = r.labels
    /\ UNCHANGED word_ids
    /\ UNCHANGED <<batchVars, postVars, cmVars>>
    /\ UNCHANGED restVars

Next == Align

Spec == Init /\ [][Next]_vars

----------------------------------------------------------------------------
(* Specification of the post-processing of one batch: SpecPost *)

InitPost ==
    /\ AlignIdle
    /\ \E s \in BatchShapes : \E cells \in CellBatches(s) :
          /\ predictions = Column(cells, 1)
          /\ batch_labels = Column(cells, 2)
    /\ true_labels = << >>
    /\ true_predictions = << >>
    /\ post_pc = "call"
    /\ metric_predictions = << >>
    /\ metric_references = << >>
    /\ cm_predictions = << >>
    /\ cm_true_labels = << >>
    /\ cm_true_predictions = << >>
    /\ cm_pc = "call"
    /\ RestIdle

\* the custom loop's
\*     true_predictions, true_labels = postprocess(predictions_gathered, labels_gathered)
\*     metric.add_batch(predictions=true_predictions, references=true_labels)
\* the loop's name true_predictions is bound to the first component of the
\* returned pair and its name true_labels to the second. The variables
\* true_labels and true_predictions hold postprocess's own lists.
Postprocess ==
    /\ post_pc = "call"
    /\ LET r == postprocess(predictions, batch_labels) IN
          /\ post_pc' = IF r.raised THEN "raised" ELSE "returned"
          /\ true_labels' = r.true_labels
          /\ true_predictions' = r.true_predictions
          /\ predictions' = r.predictions
          /\ batch_labels' = r.labels
          /\ LET returned == <<r.true_labels, r.true_predictions>>
                 loop_true_predictions == returned[1]
                 loop_true_labels == returned[2] IN
                /\ metric_predictions' =
                      IF r.raised THEN metric_predictions ELSE loop_true_predictions
                /\ metric_references' =
                      IF r.raised THEN metric_references ELSE loop_true_labels
    /\ UNCHANGED <<alignVars, cmVars>>
    /\ UNCHANGED restVars

\* the Trainer's call compute_metrics((logits, labels)) on the same batch
ComputeMetrics ==
    /\ cm_pc = "call"
    /\ \E am \in Argmax(predictions) :
          LET r == compute_metrics_lists(am, batch_labels) IN
             /\ cm_predictions' = am
             /\ cm_pc' = IF r.raised THEN "raised" ELSE "returned"
             /\ cm_true_labels' = r.true_labels
             /\ cm_true_predictions' = r.true_predictions
    /\ UNCHANGED <<alignVars, batchVars, postVars>>
    /\ UNCHANGED restVars

NextPost == Postprocess \/ ComputeMetrics

SpecPost == InitPost /\ [][NextPost]_vars

----------------------------------------------------------------------------
(* Specification of the two post-processing functions applied to arbitrary
   integer arrays, equal-shaped or not: SpecArrays *)

InitArrays ==
    /\ AlignIdle
    /\ predictions \in Arrays
    /\ batch_labels \in Arrays
    /\ true_labels = << >>
    /\ true_predictions = << >>
    /\ post_pc = "call"
    /\ metric_predictions = << >>
    /\ metric_references = << >>
    /\ cm_predictions = << >>
    /\ cm_true_labels = << >>
    /\ cm_true_predictions = << >>
    /\ cm_pc = "call"
    /\ RestIdle

\* the filtering and decoding of compute_metrics on the integer array
\* `predictions` itself
ComputeMetricsLists ==
    /\ cm_pc = "call"
    /\ LET r == compute_metrics_lists(predictions, batch_labels) IN
          /\ cm_predictions' = predictions
          /\ cm_pc' = IF r.raised THEN "raised" ELSE "returned"
          /\ cm_true_labels' = r.true_labels
          /\ cm_true_predictions' = r.true_predictions
    /\ UNCHANGED <<alignVars, batchVars, postVars>>
    /\ UNCHANGED restVars

NextArrays == Postprocess \/ ComputeMetricsLists

SpecArrays == InitArrays /\ [][NextArrays]_vars

----------------------------------------------------------------------------
(* Specification of all the calls, each from its own inputs: SpecCalls *)

InitCalls == Init \/ InitPost

NextCalls == Align \/ Postprocess \/ ComputeMetrics

SpecCalls == InitCalls /\ [][NextCalls]_vars

----------------------------------------------------------------------------
(* Specification of the aligned labels of one sentence reaching the
   post-processing: SpecCompose *)

\* word-level codes the composition is tried with: "O", "B-PER", "I-PER" and
\* the last entry of the label table
ComposeCodes == {c \in LabelCodes : c <= 2 \/ c = NumLabels - 1}

InitCompose ==
    /\ labels \in SeqsUpTo(ComposeCodes, MaxWords)
    /\ word_ids \in SeqsUpTo(WordIdEntries, MaxTokens)
    /\ new_labels = << >>
    /\ align_pc = "call"
    /\ PostIdle
    /\ RestIdle

\* tokenize_and_align_labels stores the aligned row as the example's
\* "labels"; the evaluation loop gets it back as batch["labels"], next to
\* the argmax of the logits, one index of the label table per position. The
\* batch is one sentence, so nothing is padded.
Collate ==
    /\ align_pc = "returned"
    /\ post_pc = "idle"
    /\ batch_labels' = <<new_labels>>
    /\ \E p \in BatchCodes : predictions' = <<[i \in 1 .. Len(new_labels) |-> p]>>
    /\ post_pc' = "call"
    /\ UNCHANGED <<true_labels, true_predictions, metric_predictions,
                   metric_references>>
    /\ UNCHANGED <<alignVars, cmVars>>
    /\ UNCHANGED restVars

NextCompose == Align \/ Collate \/ Postprocess

SpecCompose == InitCompose /\ [][NextCompose]_vars

----------------------------------------------------------------------------
(* Specification of any_keyword_in_string: SpecKeyword *)

\* the strings of at most n characters
Strings(n) == SeqsUpTo(Alphabet, n)

InitKeyword ==
    /\ Ch7Idle
    /\ \/ /\ string \in Strings(MaxChars)
          /\ keywords \in SeqsUpTo(Strings(MaxKeyLen), MaxKeywords)
       \/ /\ string \in {example_1, example_2}
          /\ keywords = filters
    /\ aks_result = FALSE
    /\ aks_pc = "call"
    /\ FilterIdle
    /\ TokenizeIdle
    /\ TrainIdle
    /\ TranscribeIdle

\* the call any_keyword_in_string(string, keywords)
AnyKeywordInString ==
    /\ aks_pc = "call"
    /\ aks_result' = any_keyword_in_string(string, keywords)
    /\ aks_pc' = "returned"
    /\ UNCHANGED <<string, keywords>>
    /\ UNCHANGED <<ch7Vars, filterVars, tokenizeVars, trainVars, transcribeVars>>

NextKeyword == AnyKeywordInString

SpecKeyword == InitKeyword /\ [][NextKeyword]_vars

----------------------------------------------------------------------------
(* Specification of filter_streaming_dataset: SpecFilter *)

\* keywords the streams are filtered with
FilterKeywords == {<<"a", "a">>, <<"b">>}

\* the streams of n samples: the i-th sample has path i and any content
Streams(n) ==
    {[i \in 1 .. n |-> [path |-> i, content |-> cs[i]]] :
        cs \in [1 .. n -> Strings(MaxKeyLen)]}

\* the state at the top of the for loop, before the first sample
InitFilter ==
    /\ Ch7Idle
    /\ KeywordIdle
    /\ dataset \in UNION {Streams(n) : n \in 0 .. MaxSamples}
    /\ fsd_filters \in SeqsUpTo(FilterKeywords, MaxKeywords)
    /\ stream_pos = 0
    /\ total = 0
    /\ filtered_dict = EmptyDict
    /\ fsd_result = EmptyDict
    /\ fsd_pc = "loop"
    /\ TokenizeIdle
    /\ TrainIdle
    /\ TranscribeIdle

\* one iteration of the for loop
FilterSample ==
    /\ fsd_pc = "loop"
    /\ stream_pos < Len(dataset)
    /\ stream_pos' = stream_pos + 1
    /\ LET b == FilterBody(filtered_dict, total, dataset[stream_pos + 1],
                           fsd_filters) IN
          /\ total' = b.total
          /\ filtered_dict' = b.filtered_dict
    /\ UNCHANGED <<dataset, fsd_filters, fsd_result, fsd_pc>>
    /\ UNCHANGED <<ch7Vars, keywordVars, tokenizeVars, trainVars, transcribeVars>>

\* the stream is exhausted: the print and the return
FilterReturn ==
    /\ fsd_pc = "loop"
    /\ stream_pos = Len(dataset)
    /\ LET r == FilterEnd(filtered_dict, total) IN
          /\ filtered_dict' = r.filtered_dict
          /\ fsd_result' = r.value
          /\ fsd_pc' = IF r.raised THEN "raised" ELSE "returned"
    /\ UNCHANGED <<dataset, fsd_filters, stream_pos, total>>
    /\ UNCHANGED <<ch7Vars, keywordVars, tokenizeVars, trainVars, transcribeVars>>

NextFilter == FilterSample \/ FilterReturn

SpecFilter == InitFilter /\ [][NextFilter]_vars

----------------------------------------------------------------------------
(* Specification of tokenize: SpecTokenize *)

\* numbers of tokens of the documents tried: none, one, and the lengths
\* around one and two full chunks
DocLengths ==
    {0, 1, context_length - 1, context_length, context_length + 1,
     2 * context_length, 2 * context_length + 1}

\* the documents tried, as token ids: two documents of every length, with
\* different tokens
Documents ==
    {[j \in 1 .. n |-> base + j] : n \in DocLengths, base \in {0, 1000}}

InitTokenize ==
    /\ Ch7Idle
    /\ KeywordIdle
    /\ FilterIdle
    /\ element \in SeqsUpTo(Documents, MaxDocs)
    /\ outputs = << >>
    /\ tok_result = << >>
    /\ tok_pc = "call"
    /\ TrainIdle
    /\ TranscribeIdle

\* the call tokenize(element)
Tokenize ==
    /\ tok_pc = "call"
    /\ LET r == tokenize(element) IN
          /\ outputs' = r.outputs
          /\ tok_result' = r.value
    /\ tok_pc' = "returned"
    /\ UNCHANGED element
    /\ UNCHANGED <<ch7Vars, keywordVars, filterVars, trainVars, transcribeVars>>

NextTokenize == Tokenize

SpecTokenize == InitTokenize /\ [][NextTokenize]_vars

----------------------------------------------------------------------------
(* Specification of the training loop of one process: SpecTrain *)

\* numbers of batches of the dataloader tried: none, fewer than one group,
\* one group and a partial one, one batch more than the first evaluation, and
\* exactly two evaluations
EpochLengths ==
    {0, gradient_accumulation_steps - 1, gradient_accumulation_steps + 1,
     eval_steps * gradient_accumulation_steps + 1,
     2 * eval_steps * gradient_accumulation_steps}

\* the other variables of the model, which the loop does not touch
trainFrame == <<ch7Vars, keywordVars, filterVars, tokenizeVars, transcribeVars>>

\* model.train(); completed_steps = 0; before the first epoch
InitTrain ==
    /\ Ch7Idle
    /\ KeywordIdle
    /\ FilterIdle
    /\ TokenizeIdle
    /\ TranscribeIdle
    /\ num_batches \in EpochLengths
    /\ is_main_process \in BOOLEAN
    /\ epoch = 0
    /\ step = 0
    /\ completed_steps = 0
    /\ accumulated = 0
    /\ optimizer_steps = 0
    /\ evaluations = 0
    /\ hub_pushes = 0
    /\ model_mode = "train"
    /\ events = << >>
    /\ train_pc = "batch"

\* the next batch: forward pass, loss, backward pass
TrainBatch ==
    /\ train_pc = "batch"
    /\ step < num_batches
    /\ step' = step + 1
    /\ events' = ForwardCalls
    /\ accumulated' = accumulated + 1
    /\ train_pc' = "update"
    /\ UNCHANGED <<num_batches, is_main_process, epoch, completed_steps,
                   optimizer_steps, evaluations, hub_pushes, model_mode>>
    /\ UNCHANGED trainFrame

\* the optimizer update
OptimizerUpdate ==
    /\ train_pc = "update"
    /\ UpdateDue(step)
    /\ events' = events \o UpdateCalls
    /\ optimizer_steps' = optimizer_steps + 1
    /\ accumulated' = 0
    /\ completed_steps' = completed_steps + 1
    /\ train_pc' = "eval"
    /\ UNCHANGED <<num_batches, is_main_process, epoch, step, evaluations,
                   hub_pushes, model_mode>>
    /\ UNCHANGED trainFrame

\* no update in this iteration
SkipUpdate ==
    /\ train_pc = "update"
    /\ ~UpdateDue(step)
    /\ train_pc' = "eval"
    /\ UNCHANGED <<num_batches, is_main_process, epoch, step, completed_steps,
                   accumulated, optimizer_steps, evaluations, hub_pushes,
                   model_mode, events>>
    /\ UNCHANGED trainFrame

\* eval_loss, perplexity = evaluate(): model.eval() and the evaluation loop
Evaluate ==
    /\ train_pc = "eval"
    /\ EvalDue(step)
    /\ model_mode' = "eval"
    /\ evaluations' = evaluations + 1
    /\ events' = Append(events, "evaluate")
    /\ train_pc' = "save"
    /\ UNCHANGED <<num_batches, is_main_process, epoch, step, completed_steps,
                   accumulated, optimizer_steps, hub_pushes>>
    /\ UNCHANGED trainFrame

\* no evaluation in this iteration
SkipEvaluate ==
    /\ train_pc = "eval"
    /\ ~EvalDue(step)
    /\ train_pc' = "batch"
    /\ UNCHANGED <<num_batches, is_main_process, epoch, step, completed_steps,
                   accumulated, optimizer_steps, evaluations, hub_pushes,
                   model_mode, events>>
    /\ UNCHANGED trainFrame

\* model.train() and the checkpoint: save_pretrained by every process, the
\* tokenizer and the push to the hub by the main process
SaveCheckpoint ==
    /\ train_pc = "save"
    /\ model_mode' = "train"
    /\ events' = events \o SaveCalls(is_main_process)
    /\ hub_pushes' = IF is_main_process THEN hub_pushes + 1 ELSE hub_pushes
    /\ train_pc' = "batch"
    /\ UNCHANGED <<num_batches, is_main_process, epoch, step, completed_steps,
                   accumulated, optimizer_steps, evaluations>>
    /\ UNCHANGED trainFrame

\* the dataloader is exhausted: the next epoch starts with step 1 again, or
\* the loop ends
EndEpoch ==
    /\ train_pc = "batch"
    /\ step = num_batches
    /\ epoch' = epoch + 1
    /\ IF epoch + 1 < num_train_epochs
       THEN step' = 0 /\ train_pc' = "batch"
       ELSE step' = step /\ train_pc' = "done"
    /\ UNCHANGED <<num_batches, is_main_process, completed_steps, accumulated,
                   optimizer_steps, evaluations, hub_pushes, model_mode, events>>
    /\ UNCHANGED trainFrame

NextTrain ==
    \/ TrainBatch
    \/ OptimizerUpdate
    \/ SkipUpdate
    \/ Evaluate
    \/ SkipEvaluate
    \/ SaveCheckpoint
    \/ EndEpoch

SpecTrain == InitTrain /\ [][NextTrain]_vars

----------------------------------------------------------------------------
(* Specification of the speech demo: SpecTranscribe *)

\* what one of the two optional Audio inputs holds
AudioInputs == {None} \cup {Audio(k) : k \in 1 .. MaxAudios}

\* the interface is launched, nothing submitted yet
InitTranscribe ==
    /\ Ch7Idle
    /\ KeywordIdle
    /\ FilterIdle
    /\ TokenizeIdle
    /\ TrainIdle
    /\ mic = None
    /\ file = None
    /\ ta_result = None
    /\ model_calls = << >>
    /\ requests = 0
    /\ ta_pc = "idle"

\* the interface passes a request on: fn is called with what the two Audio
\* inputs hold
Submit ==
    /\ ta_pc # "call"
    /\ requests < MaxRequests
    /\ requests' = requests + 1
    /\ mic' \in AudioInputs
    /\ file' \in AudioInputs
    /\ ta_pc' = "call"
    /\ UNCHANGED <<ta_result, model_calls>>
    /\ UNCHANGED <<ch7Vars, keywordVars, filterVars, tokenizeVars, trainVars>>

\* the call transcribe_audio(mic, file)
TranscribeAudio ==
    /\ ta_pc = "call"
    /\ LET r == transcribe_audio(mic, file) IN
          /\ ta_result' = r.value
          /\ model_calls' = model_calls \o r.calls
    /\ ta_pc' = "returned"
    /\ UNCHANGED <<mic, file, requests>>
    /\ UNCHANGED <<ch7Vars, keywordVars, filterVars, tokenizeVars, trainVars>>

NextTranscribe == Submit \/ TranscribeAudio

SpecTranscribe == InitTranscribe /\ [][NextTranscribe]_vars

----------------------------------------------------------------------------
(* Vocabulary of the properties *)

\* a 'beginning' code of the tagging scheme is an odd code
IsOdd(c) == \E k \in -60 .. 60 : c = 2 * k + 1

\* the 'inside' code paired with code c
Paired(c) == IF IsOdd(c) THEN c + 1 ELSE c

\* positions a .. b of wids are a maximal run of one word's tokens
WordRun(wids, a, b) ==
    /\ a <= b
    /\ wids[a] # None
    /\ \A i \in a .. b : wids[i] = wids[a]
    /\ a > 1 => wids[a - 1] # wids[a]
    /\ b < Len(wids) => wids[b + 1] # wids[b]

\* the invariant of a word-id map: word indices never decrease and the
\* tokens of one word are contiguous
WellFormed(wids) ==
    \A i, j \in 1 .. Len(wids) :
        (i < j /\ wids[i] # None /\ wids[j] # None) =>
            /\ wids[i][1] <= wids[j][1]
            /\ wids[i] = wids[j] => \A k \in i .. j : wids[k] = wids[i]

\* the positions of a gold row that are not ignored
Kept(gold) == {i \in 1 .. Len(gold) : gold[i] # -100}

\* out is the names of codes at the kept positions of gold, in order
NamesAtKept(out, codes, gold) ==
    /\ Len(out) = Cardinality(Kept(gold))
    /\ \A i \in Kept(gold) :
          out[Cardinality({j \in Kept(gold) : j <= i})] = label_names[codes[i] + 1]

\* <<rows, columns>> of an array
Shape(a) == <<Len(a), Columns(a)>>

\* every code of the array replaced by its name in the label table
Names(a) == [r \in 1 .. Len(a) |-> [c \in 1 .. Len(a[r]) |-> label_names[a[r][c] + 1]]]

\* tl, tp are the filtered names of the batch <<preds, gold>>, row by row
Filtered(tl, tp, preds, gold) ==
    /\ Len(tl) = Len(gold)
    /\ Len(tp) = Len(gold)
    /\ \A r \in 1 .. Len(gold) :
          /\ NamesAtKept(tl[r], gold[r], gold[r])
          /\ NamesAtKept(tp[r], preds[r], gold[r])

\* row with value v inserted after its first k entries
InsertAt(row, k, v) == SubSeq(row, 1, k) \o <<v>> \o SubSeq(row, k + 1, Len(row))

\* array a with one more column after its first k columns, holding vs[r] in
\* row r
PadColumn(a, k, vs) == [r \in 1 .. Len(a) |-> InsertAt(a[r], k, vs[r])]

\* k occurs in s as a substring: s is some prefix, then k, then some suffix
Occurs(k, s) ==
    \E a \in 0 .. Len(s) : \E b \in a .. Len(s) : SubSeq(s, a + 1, b) = k

\* the samples among the first n of stream whose content holds a keyword of
\* flt
Matching(stream, n, flt) ==
    {i \in 1 .. n : \E k \in 1 .. Len(flt) : Occurs(flt[k], stream[i]["content"])}

\* the chunks of full length among chunks
FullChunks(chunks) == {i \in 1 .. Len(chunks) : Len(chunks[i]) = 128}

\* call c is among the calls of the current iteration
Called(c) == \E i \in 1 .. Len(events) : events[i] = c

\* call c comes before call d among the calls of the current iteration
CalledBefore(c, d) ==
    \E i, j \in 1 .. Len(events) : i < j /\ events[i] = c /\ events[j] = d

\* s is a positive multiple of n
MultipleOf(s, n) == s >= n /\ (s \div n) * n = s

\* the positions of a word-id map that are not markers
NonMarkers(wids) == {i \in 1 .. Len(wids) : wids[i] # None}

\* position i is the j-th non-marker position of wids
Rank(wids, i) == Cardinality({j \in NonMarkers(wids) : j <= i})

----------------------------------------------------------------------------
(* Properties of align_labels_with_tokens, under Spec *)

\* C1: when the call returns, every maximal run of k >= 1 tokens of one word
\* with word-level code c holds [c, c', ..., c'], c' = c + 1 for odd c and
\* c' = c for even c.
C1_RunLabels ==
    align_pc = "returned" =>
        \A a, b \in 1 .. Len(word_ids) :
            WordRun(word_ids, a, b) =>
                LET c == labels[word_ids[a][1] + 1] IN
                   /\ new_labels[a] = c
                   /\ \A i \in (a + 1) .. b : new_labels[i] = Paired(c)

C1_Witness ==
    /\ align_pc = "returned"
    /\ labels = <<7, 0>>
    /\ word_ids = <<None, W(0), W(0), W(1)>>
    /\ new_labels = <<-100, 7, 8, 0>>

\* C2: when the call returns, every marker position of the word-id map holds
\* the ignore sentinel -100, whatever its neighbours are.
C2_MarkersIgnored ==
    align_pc = "returned" =>
        \A i \in 1 .. Len(word_ids) :
            word_ids[i] = None => (i <= Len(new_labels) /\ new_labels[i] = -100)

C2_Witness ==
    /\ align_pc = "returned"
    /\ labels = <<3, 1>>
    /\ word_ids = <<None, None, W(1), None>>
    /\ new_labels = <<-100, -100, 1, -100>>

\* C3: when the call returns, the output has one entry per entry of the
\* word-id map, whatever the length of the word-level label sequence.
C3_SameLength ==
    align_pc = "returned" => Len(new_labels) = Len(word_ids)

C3_Witness ==
    /\ align_pc = "returned"
    /\ Len(labels) = 1
    /\ word_ids = <<None, W(0), W(0), None>>
    /\ Len(new_labels) = 4

\* C4: when every word-level code lies in the label table 0 .. 8 and the call
\* returns, every non-marker position of the output holds a code of the
\* table.
C4_ValidCodes ==
    (align_pc = "returned" /\ \A w \in 1 .. Len(labels) : labels[w] \in 0 .. 8) =>
        \A i \in 1 .. Len(word_ids) :
            word_ids[i] # None => new_labels[i] \in 0 .. 8

C4_Witness ==
    /\ align_pc = "returned"
    /\ labels = <<7, 8>>
    /\ word_ids = <<W(0), W(0), W(1), W(1)>>
    /\ new_labels = <<7, 8, 8, 8>>

\* C5: aligned against the one-token-per-word map [0, 1, ..., len - 1], a
\* label sequence is returned unchanged.
C5_OneTokenPerWord ==
    (/\ align_pc # "call"
     /\ Len(word_ids) = Len(labels)
     /\ \A i \in 1 .. Len(word_ids) : word_ids[i] = W(i - 1)) =>
        (align_pc = "returned" /\ new_labels = labels)

C5_Witness ==
    /\ align_pc = "returned"
    /\ labels = <<3, 3>>
    /\ word_ids = <<W(0), W(1)>>
    /\ new_labels = <<3, 3>>

\* C6: for a well-formed word-id map, when the call returns, the first token
\* of every word holds the word's own code, every later token of the word
\* holds the paired inside code, which is never a beginning (odd) code, and
\* so at most one token of a word holds a beginning code.
C6_OneBeginningPerWord ==
    (align_pc = "returned" /\ WellFormed(word_ids)) =>
        \A w \in 0 .. (Len(labels) - 1) :
            LET T == {i \in 1 .. Len(word_ids) : word_ids[i] = W(w)} IN
               /\ \A i \in T :
                     IF \A j \in T : i <= j
                     THEN new_labels[i] = labels[w + 1]
                     ELSE /\ new_labels[i] = Paired(labels[w + 1])
                          /\ ~IsOdd(new_labels[i])
               /\ Cardinality({i \in T : IsOdd(new_labels[i])}) <= 1

C6_Witness ==
    /\ align_pc = "returned"
    /\ labels = <<1>>
    /\ word_ids = <<W(0), W(0), W(0)>>
    /\ new_labels = <<1, 2, 2>>

\* C7: with an empty label sequence the call does not raise: an empty
\* word-id map gives the empty output and a map of markers only gives
\* ignore sentinels only.
C7_EmptyInputs ==
    (/\ align_pc # "call"
     /\ labels = << >>
     /\ \A i \in 1 .. Len(word_ids) : word_ids[i] = None) =>
        /\ align_pc = "returned"
        /\ new_labels = [i \in 1 .. Len(word_ids) |-> -100]

C7_Witness ==
    /\ align_pc = "returned"
    /\ labels = << >>
    /\ word_ids = <<None, None>>
    /\ new_labels = <<-100, -100>>

----------------------------------------------------------------------------
(* Properties of the post-processing, under SpecPost *)

\* C8: for an equal-shaped batch, postprocess and the filter of
\* compute_metrics return, row by row, the label names at exactly the
\* positions whose gold label is not -100, in their original order: the gold
\* names and the predicted names at those same positions.
C8_KeepsNonIgnored ==
    /\ post_pc # "call" =>
          /\ post_pc = "returned"
          /\ Filtered(true_labels, true_predictions, predictions, batch_labels)
    /\ cm_pc # "call" =>
          /\ cm_pc = "returned"
          /\ Filtered(cm_true_labels, cm_true_predictions, cm_predictions,
                      batch_labels)

C8_Witness ==
    /\ post_pc = "returned"
    /\ cm_pc = "returned"
    /\ batch_labels = << <<-100, 8>>, <<0, -100>> >>
    /\ predictions = << <<0, 0>>, <<8, 8>> >>
    /\ true_labels = << <<"I-MISC">>, <<"O">> >>
    /\ true_predictions = << <<"O">>, <<"I-MISC">> >>
    /\ cm_true_labels = true_labels
    /\ cm_true_predictions = true_predictions

\* C9: the gold and the predicted sequence produced for a row have equal
\* length.
C9_EqualLengths ==
    /\ post_pc = "returned" =>
          \A r \in 1 .. Len(batch_labels) :
              /\ r <= Len(true_labels)
              /\ r <= Len(true_predictions)
              /\ Len(true_labels[r]) = Len(true_predictions[r])
    /\ cm_pc = "returned" =>
          \A r \in 1 .. Len(batch_labels) :
              /\ r <= Len(cm_true_labels)
              /\ r <= Len(cm_true_predictions)
              /\ Len(cm_true_labels[r]) = Len(cm_true_predictions[r])

C9_Witness ==
    /\ post_pc = "returned"
    /\ batch_labels = << <<0, -100, 8>> >>
    /\ predictions = << <<8, 0, 0>> >>
    /\ Len(true_labels[1]) = 2
    /\ Len(true_predictions[1]) = 2

\* C10: post-processing returns one gold and one predicted sequence per row
\* of the batch; a row whose gold labels are all -100 gives a pair of empty
\* sequences.
C10_OnePairPerRow ==
    post_pc = "returned" =>
        /\ Len(true_labels) = Len(batch_labels)
        /\ Len(true_predictions) = Len(batch_labels)
        /\ \A r \in 1 .. Len(batch_labels) :
              (\A c \in 1 .. Len(batch_labels[r]) : batch_labels[r][c] = -100) =>
                  (true_labels[r] = << >> /\ true_predictions[r] = << >>)

C10_Witness ==
    /\ post_pc = "returned"
    /\ batch_labels = << <<-100, -100>>, <<0, 8>> >>
    /\ predictions = << <<-100, 0>>, <<8, 8>> >>
    /\ true_labels = << << >>, <<"O", "I-MISC">> >>
    /\ true_predictions = << << >>, <<"I-MISC", "I-MISC">> >>

\* C11: post-processing a batch without ignore positions returns, for every
\* row, the row itself with every code i replaced by label_names[i]: same
\* length, same order.
C11_NoIgnoreRoundTrip ==
    (/\ post_pc # "call"
     /\ \A r \in 1 .. Len(batch_labels) : \A c \in 1 .. Len(batch_labels[r]) :
           batch_labels[r][c] # -100) =>
        /\ post_pc = "returned"
        /\ true_labels = Names(batch_labels)
        /\ true_predictions = Names(predictions)

C11_Witness ==
    /\ post_pc = "returned"
    /\ batch_labels = << <<0, 8>>, <<8, 8>> >>
    /\ predictions = << <<8, 0>>, <<0, 0>> >>
    /\ true_labels = << <<"O", "I-MISC">>, <<"I-MISC", "I-MISC">> >>
    /\ true_predictions = << <<"I-MISC", "O">>, <<"O", "O">> >>

----------------------------------------------------------------------------
(* Error handling of the post-processing, under SpecArrays *)

\* C12: when the predictions and the labels differ in shape, postprocess
\* fails with an error and returns nothing.
C12_MismatchIsFatal ==
    (post_pc # "call" /\ Shape(predictions) # Shape(batch_labels)) =>
        post_pc = "raised"

\* C13: when postprocess returns, every code at a kept position (gold not
\* -100) lies in the label table 0 .. 8, on the gold side and on the predicted
\* side: a code outside the table is an error, never a name of the table.
C13_MalformedIsFatal ==
    post_pc = "returned" =>
        \A r \in 1 .. Len(batch_labels) : \A c \in 1 .. Len(batch_labels[r]) :
            batch_labels[r][c] # -100 =>
                /\ batch_labels[r][c] \in 0 .. 8
                /\ (r <= Len(predictions) /\ c <= Len(predictions[r])) =>
                      predictions[r][c] \in 0 .. 8

----------------------------------------------------------------------------
(* Error handling and examples of align_labels_with_tokens, under Spec *)

\* C14: when align_labels_with_tokens returns, the word-level code of every
\* token's word lies in the label table 0 .. 8: a code outside the table
\* makes the call raise.
C14_MalformedLabelIsFatal ==
    align_pc = "returned" =>
        \A i \in 1 .. Len(word_ids) :
            word_ids[i] # None => labels[word_ids[i][1] + 1] \in 0 .. 8

\* C15: when the word-id map holds a word index that has no entry in the
\* word-level label sequence, the call raises and returns no output, not
\* even the labels of the tokens before the missing word.
C15_MissingWordIsFatal ==
    (/\ align_pc # "call"
     /\ \E i \in 1 .. Len(word_ids) :
           word_ids[i] # None /\ word_ids[i][1] >= Len(labels)) =>
        (align_pc = "raised" /\ new_labels = << >>)

C15_Witness ==
    /\ align_pc = "raised"
    /\ labels = <<1>>
    /\ word_ids = <<None, W(0), W(1)>>
    /\ new_labels = << >>

\* C16: the calls are pure. A call of align_labels_with_tokens leaves labels
\* and word_ids as they were, a call of postprocess leaves the caller's
\* predictions and labels as they were, and a second call with the same
\* arguments ends as the first did.
C16_Pure ==
    [][/\ (align_pc = "call" /\ align_pc' # "call") =>
             /\ labels' = labels
             /\ word_ids' = word_ids
             /\ LET again == align_labels_with_tokens(labels', word_ids') IN
                   /\ again.raised = (align_pc' = "raised")
                   /\ again.value = new_labels'
       /\ (post_pc = "call" /\ post_pc' # "call") =>
             /\ predictions' = predictions
             /\ batch_labels' = batch_labels
             /\ LET again == postprocess(predictions', batch_labels') IN
                   /\ again.raised = (post_pc' = "raised")
                   /\ again.true_labels = true_labels'
                   /\ again.true_predictions = true_predictions'
      ]_vars

C16_Witness ==
    /\ align_pc = "returned"
    /\ labels = <<1, 0>>
    /\ word_ids = <<W(0), W(0), W(1)>>
    /\ new_labels = <<1, 2, 0>>

\* C17: labels [3, 0, 7] aligned against [None, 0, 1, 2, None] give
\* [-100, 3, 0, 7, -100].
C17_Example ==
    (/\ align_pc # "call"
     /\ labels = <<3, 0, 7>>
     /\ word_ids = <<None, W(0), W(1), W(2), None>>) =>
        (align_pc = "returned" /\ new_labels = <<-100, 3, 0, 7, -100>>)

C17_Witness ==
    /\ align_pc = "returned"
    /\ labels = <<3, 0, 7>>
    /\ word_ids = <<None, W(0), W(1), W(2), None>>
    /\ Len(new_labels) = 5

\* C18: a word at index 3 labelled 7 (B-MISC) and split into two tokens,
\* word-id map [3, 3], is aligned to [7, 8] (B-MISC, I-MISC).
C18_SplitWordExample ==
    (/\ align_pc # "call"
     /\ Len(labels) >= 4
     /\ labels[4] = 7
     /\ word_ids = <<W(3), W(3)>>) =>
        (align_pc = "returned" /\ new_labels = <<7, 8>>)

C18_Witness ==
    /\ align_pc = "returned"
    /\ Len(labels) = 4
    /\ labels[4] = 7
    /\ word_ids = <<W(3), W(3)>>
    /\ Len(new_labels) = 2

----------------------------------------------------------------------------
(* The evaluation loop, under SpecPost *)

\* C19: for every batch of the evaluation loop the metric gets the gold
\* label names of postprocess as references and its predicted label names
\* as predictions.
C19_MetricArgumentOrder ==
    post_pc = "returned" =>
        /\ metric_references = true_labels
        /\ metric_predictions = true_predictions

----------------------------------------------------------------------------
(* The two implementations of the post-processing, under SpecArrays *)

\* C20: on the same integer arrays (equal-shaped or not) the filtering and
\* decoding of compute_metrics and postprocess end alike: both raise, or
\* both return the same true_labels and the same true_predictions.
C20_SameLists ==
    (post_pc # "call" /\ cm_pc # "call") =>
        /\ cm_pc = post_pc
        /\ cm_true_labels = true_labels
        /\ cm_true_predictions = true_predictions

C20_Witness ==
    /\ post_pc = "returned"
    /\ cm_pc = "returned"
    /\ predictions = << <<8, 0>> >>
    /\ batch_labels = << <<-100, 8>> >>
    /\ true_labels = << <<"I-MISC">> >>
    /\ cm_true_predictions = << <<"O">> >>

----------------------------------------------------------------------------
(* Padding, under SpecArrays *)

\* C21: for equal-shaped predictions and labels, a call of postprocess on the
\* batch with one more column, at any position, whose gold label is -100 and
\* whose predictions are any codes at all, ends as the call on the batch
\* itself did: it raises only if that call raised, and it returns the same
\* gold and the same predicted sequences for every row.
C21_PaddingInvariant ==
    (post_pc # "call" /\ Shape(predictions) = Shape(batch_labels)) =>
        \A k \in 0 .. Columns(batch_labels) :
            \A vs \in [1 .. Len(batch_labels) -> ArrayCodes] :
                LET padded ==
                        postprocess(
                            PadColumn(predictions, k, vs),
                            PadColumn(batch_labels, k,
                                      [r \in 1 .. Len(batch_labels) |-> -100])) IN
                   /\ padded.raised = (post_pc = "raised")
                   /\ padded.true_labels = true_labels
                   /\ padded.true_predictions = true_predictions

C21_Witness ==
    /\ post_pc = "returned"
    /\ predictions = << <<8, 0>> >>
    /\ batch_labels = << <<0, 8>> >>
    /\ true_predictions = << <<"I-MISC", "O">> >>
    /\ LET padded == postprocess(<< <<8, 9, 0>> >>, << <<0, -100, 8>> >>) IN
          /\ ~padded.raised
          /\ padded.true_labels = true_labels
          /\ padded.true_predictions = true_predictions

----------------------------------------------------------------------------
(* The aligned labels in the post-processing, under SpecCompose *)

\* C22: for word labels in 0 .. 8 and a well-formed word-id map, the
\* post-processing of the row align_labels_with_tokens returned does not
\* raise; its gold sequence has one entry per non-marker entry of the word-id
\* map, the j-th being the label name of the aligned code of the j-th
\* non-marker token, and its predicted sequence has the names of the
\* predictions at those same tokens.
C22_Composition ==
    (/\ post_pc \in {"returned", "raised"}
     /\ \A w \in 1 .. Len(labels) : labels[w] \in 0 .. 8
     /\ WellFormed(word_ids)) =>
        /\ post_pc = "returned"
        /\ Len(true_labels) = 1
        /\ Len(true_predictions) = 1
        /\ Len(true_labels[1]) = Cardinality(NonMarkers(word_ids))
        /\ Len(true_predictions[1]) = Cardinality(NonMarkers(word_ids))
        /\ \A i \in NonMarkers(word_ids) :
              /\ true_labels[1][Rank(word_ids, i)] = label_names[new_labels[i] + 1]
              /\ true_predictions[1][Rank(word_ids, i)] =
                    label_names[predictions[1][i] + 1]

C22_Witness ==
    /\ post_pc = "returned"
    /\ labels = <<1, 8>>
    /\ word_ids = <<None, W(0), W(0), W(1)>>
    /\ new_labels = <<-100, 1, 2, 8>>
    /\ batch_labels = <<new_labels>>
    /\ true_labels = << <<"B-PER", "I-PER", "I-MISC">> >>
    /\ true_predictions = << <<"O", "O", "O">> >>

----------------------------------------------------------------------------
(* Continuation tokens and recurring words, under Spec *)

\* C23: when the call returns, at every continuation position i (a
\* non-marker entry equal to the entry before it) the code out[i] is even and
\* out[i - 1] is out[i] - 1 or out[i].
C23_ContinuationFollows ==
    align_pc = "returned" =>
        \A i \in 2 .. Len(word_ids) :
            (word_ids[i] # None /\ word_ids[i] = word_ids[i - 1]) =>
                /\ ~IsOdd(new_labels[i])
                /\ new_labels[i - 1] \in {new_labels[i] - 1, new_labels[i]}

C23_Witness ==
    /\ align_pc = "returned"
    /\ labels = <<0, 3>>
    /\ word_ids = <<W(1), W(1), W(1), None>>
    /\ new_labels = <<3, 4, 4, -100>>

\* C24: when the call returns, out[i] is fixed by word_ids[i], word_ids[i - 1]
\* and labels[word_ids[i]]: -100 for a marker, the word's code when the entry
\* before differs (or there is none), the paired inside code when it is the
\* same. So the first token of a word-id that recurs after a marker or after
\* another word-id holds the word's original code again.
C24_PreviousEntryOnly ==
    align_pc = "returned" =>
        /\ Len(new_labels) = Len(word_ids)
        /\ \A i \in 1 .. Len(word_ids) :
              new_labels[i] =
                  IF word_ids[i] = None
                  THEN -100
                  ELSE IF i = 1 \/ word_ids[i - 1] # word_ids[i]
                  THEN labels[word_ids[i][1] + 1]
                  ELSE Paired(labels[word_ids[i][1] + 1])
        /\ \A i \in 3 .. Len(word_ids) :
              (/\ word_ids[i] # None
               /\ word_ids[i - 1] # word_ids[i]
               /\ \E j \in 1 .. (i - 2) : word_ids[j] = word_ids[i]) =>
                  new_labels[i] = labels[word_ids[i][1] + 1]

C24_Witness ==
    /\ align_pc = "returned"
    /\ labels = <<1, 0>>
    /\ word_ids = <<W(0), W(0), None, W(0)>>
    /\ new_labels = <<1, 2, -100, 1>>

----------------------------------------------------------------------------
(* The keyword test, under SpecKeyword *)

\* C25: any_keyword_in_string returns True if and only if some element of
\* keywords occurs in string as a substring; so it returns False for an empty
\* keyword list, False for 'import numpy as np' and True for
\* 'import pandas as pd' with the filters pandas, sklearn, matplotlib,
\* seaborn.
C25_AnyKeyword ==
    aks_pc # "call" =>
        /\ aks_pc = "returned"
        /\ aks_result = (\E k \in 1 .. Len(keywords) : Occurs(keywords[k], string))
        /\ keywords = << >> => aks_result = FALSE
        /\ (string = example_1 /\ keywords = filters) => aks_result = FALSE
        /\ (string = example_2 /\ keywords = filters) => aks_result = TRUE

C25_Witness ==
    /\ aks_pc = "returned"
    /\ string = <<"a", "b", "a">>
    /\ keywords = << <<"b", "b">>, <<"b", "a">> >>
    /\ aks_result = TRUE

----------------------------------------------------------------------------
(* The filtering of a stream, under SpecFilter *)

\* C26: after any prefix of the stream, total is the number of samples
\* visited, each once, and every column list of filtered_dict holds, in stream
\* order, that column of exactly the visited samples whose content contains
\* a keyword of filters: all lists have the same length, the number of
\* matching samples so far, at most total. What is returned is filtered_dict
\* after the whole stream.
C26_KeepsMatching ==
    fsd_pc # "idle" =>
        LET M == Matching(dataset, stream_pos, fsd_filters) IN
           /\ total = stream_pos
           /\ M # {} => DOMAIN filtered_dict = {"path", "content"}
           /\ \A col \in DOMAIN filtered_dict :
                 /\ Len(filtered_dict[col]) = Cardinality(M)
                 /\ Len(filtered_dict[col]) <= total
                 /\ \A i \in M :
                       filtered_dict[col][Cardinality({j \in M : j <= i})] =
                           dataset[i][col]
           /\ fsd_pc = "returned" =>
                 /\ stream_pos = Len(dataset)
                 /\ fsd_result = filtered_dict

C26_Witness ==
    /\ fsd_pc = "returned"
    /\ fsd_filters = << <<"a", "a">>, <<"b">> >>
    /\ Len(dataset) = 2
    /\ dataset[1]["content"] = <<"a">>
    /\ dataset[2]["content"] = <<"a", "b">>
    /\ total = 2
    /\ fsd_result["path"] = <<2>>
    /\ fsd_result["content"] = << <<"a", "b">> >>

----------------------------------------------------------------------------
(* The chunks kept by tokenize, under SpecTokenize *)

\* C27: tokenize returns, in their original order, exactly the chunks of the
\* tokenizer that hold context_length = 128 tokens; every shorter chunk is
\* dropped, so every returned entry holds 128 tokens, and a batch whose
\* documents are all shorter than 128 tokens gives the empty list.
C27_FullChunksOnly ==
    tok_pc # "call" =>
        LET chunks == outputs.input_ids
            F == FullChunks(chunks)
            input_batch == tok_result.input_ids IN
           /\ tok_pc = "returned"
           /\ DOMAIN tok_result = {"input_ids"}
           /\ Len(input_batch) = Cardinality(F)
           /\ \A i \in F : input_batch[Cardinality({j \in F : j <= i})] = chunks[i]
           /\ \A r \in 1 .. Len(input_batch) : Len(input_batch[r]) = 128
           /\ (\A d \in 1 .. Len(element) : Len(element[d]) < 128) =>
                 input_batch = << >>

C27_Witness ==
    /\ tok_pc = "returned"
    /\ Len(element) = 2
    /\ Len(element[1]) = 129
    /\ Len(element[2]) = 256
    /\ element[1][1] # element[2][1]
    /\ Len(outputs.input_ids) = 4
    /\ outputs.length = <<128, 1, 128, 128>>
    /\ tok_result.input_ids =
          <<SubSeq(element[1], 1, 128), SubSeq(element[2], 1, 128),
            SubSeq(element[2], 129, 256)>>

----------------------------------------------------------------------------
(* The training loop, under SpecTrain *)

\* C28: once the iteration with 1-based step s is past its update, it has
\* called optimizer.step if and only if s is a multiple of 8, and then it has
\* called clip_grad_norm_, optimizer.step, lr_scheduler.step and zero_grad
\* together, in this order, right after the backward pass; completed_steps
\* is the number of optimizer steps so far, floor(s / 8); and when the epoch
\* has ended, the gradients of the last num_batches mod 8 batches are still
\* waiting, not applied.
C28_UpdateEveryEighthStep ==
    /\ (train_pc \in {"eval", "save", "batch", "done"} /\ step >= 1) =>
          /\ Called("optimizer.step") <=> MultipleOf(step, 8)
          /\ Called("optimizer.step") =>
                (/\ Len(events) >= 7
                 /\ SubSeq(events, 3, 7) =
                       <<"accelerator.backward", "accelerator.clip_grad_norm_",
                         "optimizer.step", "lr_scheduler.step",
                         "optimizer.zero_grad">>)
          /\ ~Called("optimizer.step") =>
                \A i \in 1 .. Len(events) :
                    events[i] \notin {"accelerator.clip_grad_norm_",
                                      "lr_scheduler.step", "optimizer.zero_grad"}
    /\ train_pc \in {"eval", "save", "batch", "done"} =>
          /\ completed_steps = optimizer_steps
          /\ completed_steps = step \div 8
    /\ train_pc = "update" =>
          /\ completed_steps = optimizer_steps
          /\ completed_steps = (step - 1) \div 8
    /\ train_pc = "done" =>
          /\ step = num_batches
          /\ accumulated = num_batches - 8 * optimizer_steps
          /\ accumulated < 8
          /\ ~MultipleOf(num_batches, 8) => accumulated > 0 \/ num_batches = 0

C28_Witness ==
    /\ train_pc = "done"
    /\ num_batches = 9
    /\ completed_steps = 1
    /\ optimizer_steps = 1
    /\ accumulated = 1

----------------------------------------------------------------------------
(* The speech demo, under SpecTranscribe *)

\* C30: every call of transcribe_audio returns. With a mic recording it
\* returns the transcription of mic, whether or not a file is given too;
\* with a file only, the transcription of file; in both cases the speech
\* model is called once, with that recording. With neither it returns the
\* message 'You must either provide a mic recording or a file' and the
\* speech model is not called.
C30_EitherInput ==
    [][ta_pc = "call" =>
          /\ ta_pc' = "returned"
          /\ mic # None =>
                /\ ta_result' = <<"text of", mic>>
                /\ model_calls' = Append(model_calls, mic)
          /\ (mic = None /\ file # None) =>
                /\ ta_result' = <<"text of", file>>
                /\ model_calls' = Append(model_calls, file)
          /\ (mic = None /\ file = None) =>
                /\ ta_result' =
                      <<"str", "You must either provide a mic recording or a file">>
                /\ model_calls' = model_calls
      ]_vars

C30_Witness ==
    /\ ta_pc = "returned"
    /\ requests = 2
    /\ mic = None
    /\ file = None
    /\ ta_result = <<"str", "You must either provide a mic recording or a file">>
    /\ Len(model_calls) = 1

====
